---- MODULE Spec2Model ----
(***************************************************************************)
(* A model of piplicenses.py (pip-licenses 3.1.0): the license resolver,   *)
(* the record filter with its fail-on / allow-only gates, the field        *)
(* projector, the table construction and the output sink.                  *)
(*                                                                         *)
(* Python strings are TLC strings; Len, \o, SubSeq and Tail act on them    *)
(* character by character.  Python lists and tuples are sequences.  An     *)
(* optional value (None or a value) is the empty or the one-element        *)
(* sequence.                                                               *)
(***************************************************************************)
EXTENDS Integers, Sequences, FiniteSets, TLC

VARIABLES
    PTABLE,          \* which prettytable distribution the build imported
    installed,       \* get_installed_distributions(): sequence of distributions
    args,            \* the argparse namespace
    pc,              \* position of main()
    next_pkg,        \* position of the for loop of get_packages
    table,           \* rows added to the table so far
    counts,          \* the Counter of create_summary_table
    examined,        \* history: positions of installed the loop has looked at
    resolved,        \* history: positions of installed whose license was resolved
    yielded,         \* history: positions of installed that get_packages yielded
    output_string,   \* result of create_output_string, as an optional value
    stdout,          \* what was written to sys.stdout
    stderr,          \* what was written to sys.stderr
    file,            \* what was written to the --output-file
    exit_code,       \* the exit status, as an optional value
    call,            \* arguments of a function called on its own
    ret              \* its return value, as an optional value

vars == <<PTABLE, installed, args, pc, next_pkg, table, counts,
          examined, resolved, yielded, output_string, stdout, stderr, file, exit_code,
          call, ret>>

run_vars == <<PTABLE, installed, args, pc, next_pkg, table, counts,
              examined, resolved, yielded, output_string, stdout, stderr, file,
              exit_code>>

(***************************************************************************)
(* Bounds of the model.                                                    *)
(***************************************************************************)
MaxClassifiers == 2
MaxPkgs == 2
MaxRows == 2

None == <<>>
Some(v) == <<v>>

(***************************************************************************)
(* Python string and sequence primitives.                                  *)
(***************************************************************************)
UpperChars == <<"A","B","C","D","E","F","G","H","I","J","K","L","M",
                "N","O","P","Q","R","S","T","U","V","W","X","Y","Z">>
LowerChars == <<"a","b","c","d","e","f","g","h","i","j","k","l","m",
                "n","o","p","q","r","s","t","u","v","w","x","y","z">>

lower_char(c) ==
    IF \E i \in 1..26 : UpperChars[i] = c
    THEN LowerChars[CHOOSE i \in 1..26 : UpperChars[i] = c]
    ELSE c

upper_char(c) ==
    IF \E i \in 1..26 : LowerChars[i] = c
    THEN UpperChars[CHOOSE i \in 1..26 : LowerChars[i] = c]
    ELSE c

RECURSIVE lower(_)
lower(s) ==
    IF s = "" THEN "" ELSE lower_char(SubSeq(s, 1, 1)) \o lower(Tail(s))

RECURSIVE upper(_)
upper(s) ==
    IF s = "" THEN "" ELSE upper_char(SubSeq(s, 1, 1)) \o upper(Tail(s))

capitalize(s) ==
    IF s = "" THEN "" ELSE upper_char(SubSeq(s, 1, 1)) \o lower(Tail(s))

startswith(s, prefix) ==
    /\ Len(prefix) <= Len(s)
    /\ SubSeq(s, 1, Len(prefix)) = prefix

RECURSIVE join(_, _)
join(sep, list) ==
    IF list = <<>> THEN ""
    ELSE IF Len(list) = 1 THEN list[1]
    ELSE list[1] \o sep \o join(sep, Tail(list))

RECURSIVE split_from(_, _, _)
split_from(s, sep, cur) ==
    IF s = "" THEN <<cur>>
    ELSE IF startswith(s, sep)
         THEN <<cur>> \o split_from(SubSeq(s, Len(sep) + 1, Len(s)), sep, "")
         ELSE split_from(Tail(s), sep, cur \o SubSeq(s, 1, 1))

split(s, sep) == split_from(s, sep, "")

In(x, list) == \E i \in 1..Len(list) : list[i] = x

(***************************************************************************)
(* Module constants.                                                       *)
(***************************************************************************)
pkgname == "pip-licenses"

SUMMARY_FIELD_NAMES == <<"Count", "License">>
DEFAULT_OUTPUT_FIELDS == <<"Name", "Version">>
SUMMARY_OUTPUT_FIELDS == <<"Count", "License">>
METADATA_KEYS == <<"home-page", "author", "license", "summary",
                   "license_classifier">>

FIELDS_TO_METADATA_KEYS ==
    [f \in {"URL", "Description", "License-Metadata", "License-Classifier"} |->
        CASE f = "URL" -> "home-page"
          [] f = "Description" -> "summary"
          [] f = "License-Metadata" -> "license"
          [] f = "License-Classifier" -> "license_classifier"]

SYSTEM_PACKAGES(ptable) ==
    <<pkgname, "pip", IF ptable THEN "PTable" ELSE "prettytable",
      "setuptools", "wheel">>

LICENSE_UNKNOWN == "UNKNOWN"

SourceModes == {"meta", "classifier", "mixed", "all"}
LicenseStrings == {"", "MIT", "BSD", LICENSE_UNKNOWN}

SeqsUpTo(S, n) == UNION {[1..k -> S] : k \in 0..n}

Idle ==
    /\ PTABLE = TRUE
    /\ installed = <<>>
    /\ args = <<>>
    /\ pc = "idle"
    /\ next_pkg = 1
    /\ table = <<>>
    /\ counts = <<>>
    /\ examined = {}
    /\ resolved = {}
    /\ yielded = <<>>
    /\ output_string = None
    /\ stdout = <<>>
    /\ stderr = <<>>
    /\ file = None
    /\ exit_code = None

(***************************************************************************)
(* The license resolver.                                                   *)
(***************************************************************************)
select_license_by_source_nolen(from_source, license_classifier, license_meta) ==
    LET joined == join(", ", license_classifier)
        license_classifier_str ==
            IF joined # "" THEN joined ELSE LICENSE_UNKNOWN
    IN  IF from_source = "classifier" \/ from_source = "mixed"
        THEN license_classifier_str
        ELSE license_meta

select_license_by_source(from_source, license_classifier, license_meta) ==
    LET joined == join(", ", license_classifier)
        license_classifier_str ==
            IF joined # "" THEN joined ELSE LICENSE_UNKNOWN
    IN  IF \/ from_source = "classifier"
           \/ from_source = "mixed" /\ Len(license_classifier) > 0
        THEN license_classifier_str
        ELSE license_meta

(***************************************************************************)
(* More string primitives.                                                 *)
(***************************************************************************)
RECURSIVE replace(_, _, _)
replace(s, old, new) ==
    IF s = "" THEN ""
    ELSE (IF SubSeq(s, 1, 1) = old THEN new ELSE SubSeq(s, 1, 1))
         \o replace(Tail(s), old, new)

\* A str used where a sequence is expected is the sequence of its characters.
chars(s) == [i \in 1..Len(s) |-> SubSeq(s, i, i)]

Last(list) == list[Len(list)]

(***************************************************************************)
(* codecs: the code pages the model knows and the characters each one can  *)
(* encode.  s.encode(cp, errors="ignore").decode(cp) drops the rest.       *)
(***************************************************************************)
KnownCodePages == {"latin1", "ascii", "utf-8"}

codecs_lookup(code_page) == code_page \in KnownCodePages

encodable(c, code_page) ==
    CASE code_page \in {"ascii", "latin1"} -> c # "€"
      [] OTHER -> TRUE

RECURSIVE encode_decode(_, _)
encode_decode(s, code_page) ==
    IF s = "" THEN ""
    ELSE (IF encodable(SubSeq(s, 1, 1), code_page) THEN SubSeq(s, 1, 1) ELSE "")
         \o encode_decode(Tail(s), code_page)

(***************************************************************************)
(* The metadata reader.  A distribution has a project_name, a version, a   *)
(* location, optional METADATA and PKG_INFO blocks (each a sequence of     *)
(* <<header name, value>> pairs, as the email parser splits the text) and  *)
(* dist_info, the sorted listing of <<file name, text>> of the directory   *)
(* named dist_dir under location.                                          *)
(***************************************************************************)
pkg_dirname(pkg) ==
    replace(pkg.project_name, "-", "_") \o "-" \o pkg.version \o ".dist-info"

get_pkg_included_file(pkg, prefixes) ==
    LET listing == IF pkg.dist_dir = pkg_dirname(pkg) THEN pkg.dist_info ELSE <<>>
        matches(f) == SelectSeq(listing, LAMBDA e : startswith(e[1], f))
        RECURSIVE patterns(_)
        patterns(fs) ==
            IF fs = <<>> THEN <<>> ELSE matches(Head(fs)) \o patterns(Tail(fs))
        found == patterns(prefixes)
    IN  IF found = <<>>
        THEN <<LICENSE_UNKNOWN, LICENSE_UNKNOWN>>
        ELSE <<pkg.location \o "/" \o pkg_dirname(pkg) \o "/" \o found[1][1],
               found[1][2]>>

\* Message.get(key, default): the first header of that name, case-insensitively.
message_get(headers, key, default) ==
    LET hits == SelectSeq(headers, LAMBDA h : lower(h[1]) = lower(key))
    IN  IF hits = <<>> THEN default ELSE hits[1][2]

find_license_from_classifier(message) ==
    LET tagged == SelectSeq(message, LAMBDA h :
                      h[1] = "Classifier" /\ startswith(h[2], "License"))
        licenses == [i \in 1..Len(tagged) |-> Last(split(tagged[i][2], " :: "))]
    IN  SelectSeq(licenses, LAMBDA l : l # "OSI Approved")

PkgInfoKeys == {"name", "version", "namever", "licensefile", "licensetext",
                "noticefile", "noticetext", "home-page", "author", "license",
                "summary", "license_classifier"}

get_pkg_info(pkg, a) ==
    LET lic == get_pkg_included_file(pkg, <<"LICENSE", "LICENCE", "COPYING">>)
        notice == get_pkg_included_file(pkg, <<"NOTICE">>)
        metadata == IF pkg.METADATA # None THEN pkg.METADATA ELSE pkg.PKG_INFO
        base(k) == CASE k = "name" -> pkg.project_name
                     [] k = "version" -> pkg.version
                     [] k = "namever" -> pkg.project_name \o " " \o pkg.version
                     [] k = "licensefile" -> lic[1]
                     [] k = "licensetext" -> lic[2]
                     [] k = "noticefile" -> notice[1]
                     [] k = "noticetext" -> notice[2]
        parsed == [k \in PkgInfoKeys |->
                     IF k = "license_classifier"
                     THEN find_license_from_classifier(metadata[1])
                     ELSE IF In(k, METADATA_KEYS)
                     THEN message_get(metadata[1], k, LICENSE_UNKNOWN)
                     ELSE base(k)]
    IN  IF metadata = None
        THEN [k \in PkgInfoKeys |->
                 IF k = "license_classifier" THEN chars(LICENSE_UNKNOWN)
                 ELSE IF In(k, METADATA_KEYS) THEN LICENSE_UNKNOWN
                 ELSE base(k)]
        ELSE IF a.filter_strings
        THEN [k \in PkgInfoKeys |->
                 IF k = "license_classifier"
                 THEN [i \in 1..Len(parsed[k]) |->
                          encode_decode(parsed[k][i], a.filter_code_page)]
                 ELSE encode_decode(parsed[k], a.filter_code_page)]
        ELSE parsed

(***************************************************************************)
(* The record filter: the body of the for loop of get_packages.            *)
(***************************************************************************)
ignore_pkgs_as_lower(a) ==
    [i \in 1..Len(a.ignore_packages) |-> lower(a.ignore_packages[i])]

\* None, or the list of names of a semicolon-separated option that is set
\* and not empty.
license_list(option) ==
    IF option # None /\ option[1] # "" THEN Some(split(option[1], ";")) ELSE None

license_name_of(pkg, a) ==
    LET pkg_info == get_pkg_info(pkg, a)
    IN  select_license_by_source(a.from, pkg_info["license_classifier"],
                                 pkg_info["license"])

is_ignored_case_sensitive(pkg, a) == In(pkg.project_name, a.ignore_packages)

is_ignored(pkg, a) == In(lower(pkg.project_name), ignore_pkgs_as_lower(a))

is_system(pkg, a, ptable) ==
    ~a.with_system /\ In(pkg.project_name, SYSTEM_PACKAGES(ptable))

hits_fail_on_meta(pkg, a) ==
    LET fail_on_licenses == license_list(a.fail_on)
    IN  /\ fail_on_licenses # None
        /\ In(get_pkg_info(pkg, a)["license"], fail_on_licenses[1])

hits_fail_on(pkg, a) ==
    LET fail_on_licenses == license_list(a.fail_on)
    IN  fail_on_licenses # None /\ In(license_name_of(pkg, a), fail_on_licenses[1])

misses_allow_only(pkg, a) ==
    LET allow_only_licenses == license_list(a.allow_only)
    IN  /\ allow_only_licenses # None
        /\ ~In(license_name_of(pkg, a), allow_only_licenses[1])

step_outcome_allow_first(pkg, a, ptable) ==
    IF is_ignored(pkg, a) THEN "ignored"
    ELSE IF is_system(pkg, a, ptable) THEN "system"
    ELSE IF misses_allow_only(pkg, a) THEN "allow-only"
    ELSE IF hits_fail_on(pkg, a) THEN "fail-on"
    ELSE "yield"

step_outcome(pkg, a, ptable) ==
    IF is_ignored(pkg, a) THEN "ignored"
    ELSE IF is_system(pkg, a, ptable) THEN "system"
    ELSE IF hits_fail_on(pkg, a) THEN "fail-on"
    ELSE IF misses_allow_only(pkg, a) THEN "allow-only"
    ELSE "yield"

fail_on_message(pkg, a) ==
    LET pkg_info == get_pkg_info(pkg, a)
    IN  "fail-on license " \o license_name_of(pkg, a)
        \o " was found for package "
        \o pkg_info["name"] \o ":" \o pkg_info["version"]

allow_only_message(pkg, a) ==
    LET pkg_info == get_pkg_info(pkg, a)
    IN  "license " \o license_name_of(pkg, a)
        \o " not in allow-only licenses was found for package "
        \o pkg_info["name"] \o ":" \o pkg_info["version"]

(***************************************************************************)
(* Table construction.                                                     *)
(***************************************************************************)
licenses_table_row(pkg_info, a, output_fields) ==
    [i \in 1..Len(output_fields) |->
        LET field == output_fields[i]
        IN  IF field = "License"
            THEN select_license_by_source(a.from, pkg_info["license_classifier"],
                                          pkg_info["license"])
            ELSE IF field = "License-Classifier"
            THEN (LET joined == join(", ", pkg_info["license_classifier"])
                  IN  IF joined # "" THEN joined ELSE LICENSE_UNKNOWN)
            ELSE IF lower(field) \in PkgInfoKeys
            THEN pkg_info[lower(field)]
            ELSE pkg_info[FIELDS_TO_METADATA_KEYS[field]]]

\* Counter.update with one key: counts is the sequence of <<key, count>> in
\* the order the keys were first seen.
counter_add(counter, key) ==
    IF \E i \in 1..Len(counter) : counter[i][1] = key
    THEN [i \in 1..Len(counter) |->
             IF counter[i][1] = key THEN <<key, counter[i][2] + 1>> ELSE counter[i]]
    ELSE Append(counter, <<key, 1>>)

summary_key(pkg_info, a) == pkg_info["license"]

summary_table_rows(counter) ==
    [i \in 1..Len(counter) |-> <<counter[i][2], counter[i][1]>>]

get_sortby(a) ==
    IF a.summary /\ a.order = "count" THEN "Count"
    ELSE IF a.summary \/ a.order = "license" THEN "License"
    ELSE IF a.order = "name" THEN "Name"
    ELSE IF a.order = "author" /\ a.with_authors THEN "Author"
    ELSE IF a.order = "url" /\ a.with_urls THEN "URL"
    ELSE "Name"

(***************************************************************************)
(* The field projector.                                                    *)
(***************************************************************************)
get_output_fields_filefirst(a) ==
    IF a.summary THEN SUMMARY_OUTPUT_FIELDS
    ELSE
    LET f0 == DEFAULT_OUTPUT_FIELDS
        f1 == IF a.from = "all"
              THEN Append(Append(f0, "License-Metadata"), "License-Classifier")
              ELSE Append(f0, "License")
        f2 == IF a.with_authors THEN Append(f1, "Author") ELSE f1
        f3 == IF a.with_urls THEN Append(f2, "URL") ELSE f2
        f4 == IF a.with_description THEN Append(f3, "Description") ELSE f3
        f5 == IF a.with_license_file /\ ~a.no_license_path
              THEN Append(f4, "LicenseFile") ELSE f4
        f6 == IF a.with_license_file THEN Append(f5, "LicenseText") ELSE f5
        f7 == IF a.with_license_file /\ a.with_notice_file /\ ~a.no_license_path
              THEN Append(f6, "NoticeFile") ELSE f6
        f8 == IF a.with_license_file /\ a.with_notice_file
              THEN Append(f7, "NoticeText") ELSE f7
    IN  f8

get_output_fields(a) ==
    IF a.summary THEN SUMMARY_OUTPUT_FIELDS
    ELSE
    LET f0 == DEFAULT_OUTPUT_FIELDS
        f1 == IF a.from = "all"
              THEN Append(Append(f0, "License-Metadata"), "License-Classifier")
              ELSE Append(f0, "License")
        f2 == IF a.with_authors THEN Append(f1, "Author") ELSE f1
        f3 == IF a.with_urls THEN Append(f2, "URL") ELSE f2
        f4 == IF a.with_description THEN Append(f3, "Description") ELSE f3
        f5 == IF a.with_license_file /\ ~a.no_license_path
              THEN Append(f4, "LicenseFile") ELSE f4
        f6 == IF a.with_license_file THEN Append(f5, "LicenseText") ELSE f5
        f7 == IF a.with_license_file /\ a.with_notice_file
              THEN Append(f6, "NoticeText") ELSE f6
        f8 == IF a.with_license_file /\ a.with_notice_file /\ ~a.no_license_path
              THEN Append(f7, "NoticeFile") ELSE f7
    IN  f8

(***************************************************************************)
(* get_output_fields called on its own, on every combination of the        *)
(* options it reads.                                                       *)
(***************************************************************************)
InitFields ==
    /\ Idle
    /\ call \in [summary : BOOLEAN, from : SourceModes,
                 with_authors : BOOLEAN, with_urls : BOOLEAN,
                 with_description : BOOLEAN, with_license_file : BOOLEAN,
                 no_license_path : BOOLEAN, with_notice_file : BOOLEAN]
    /\ ret = None

CallFields ==
    /\ ret = None
    /\ ret' = Some(get_output_fields(call))
    /\ UNCHANGED <<call, run_vars>>

NextFields == CallFields

SpecFields == InitFields /\ [][NextFields]_vars

(***************************************************************************)
(* The value aliases of --from, --order and --format.  The sequence of     *)
(* independent if statements is a sequence of conditional assignments.     *)
(***************************************************************************)
compatible_format_args(a) ==
    LET from_input == lower(a.from)
        order_input == lower(a.order)
        format_input == lower(a.format)
        from1 == IF from_input \in {"meta", "m"} THEN "meta" ELSE a.from
        from2 == IF from_input \in {"classifier", "c"} THEN "classifier" ELSE from1
        from3 == IF from_input \in {"mixed", "mix"} THEN "mixed" ELSE from2
        order1 == IF order_input \in {"count", "c"} THEN "count" ELSE a.order
        order2 == IF order_input \in {"license", "l"} THEN "license" ELSE order1
        order3 == IF order_input \in {"name", "n"} THEN "name" ELSE order2
        order4 == IF order_input \in {"author", "a"} THEN "author" ELSE order3
        order5 == IF order_input \in {"url", "u"} THEN "url" ELSE order4
        format1 == IF format_input \in {"plain", "p"} THEN "plain" ELSE a.format
        format2 == IF format_input \in {"markdown", "md", "m"}
                   THEN "markdown" ELSE format1
        format3 == IF format_input \in {"rst", "rest", "r"} THEN "rst" ELSE format2
        format4 == IF format_input \in {"confluence", "c"}
                   THEN "confluence" ELSE format3
        format5 == IF format_input \in {"html", "h"} THEN "html" ELSE format4
        format6 == IF format_input \in {"json", "j"} THEN "json" ELSE format5
        format7 == IF format_input \in {"json-license-finder", "jlf"}
                   THEN "json-license-finder" ELSE format6
        format8 == IF format_input \in {"csv"} THEN "csv" ELSE format7
    IN  [a EXCEPT !.from = from3, !.order = order5, !.format = format8]

(***************************************************************************)
(* _compatible_format_args called on its own, on every canonical value and *)
(* alias of the three options, each in lower case, upper case and          *)
(* capitalised.                                                            *)
(***************************************************************************)
Orders == {"name", "license", "author", "url", "count"}
Formats == {"plain", "plain-vertical", "markdown", "rst", "confluence",
            "html", "json", "json-license-finder", "csv"}

FromAlias == [m |-> "meta", c |-> "classifier", mix |-> "mixed"]
OrderAlias == [c |-> "count", l |-> "license", n |-> "name", a |-> "author",
               u |-> "url"]
FormatAlias == [p |-> "plain", md |-> "markdown", m |-> "markdown",
                rest |-> "rst", r |-> "rst", c |-> "confluence", h |-> "html",
                j |-> "json", jlf |-> "json-license-finder"]

Spellings(S) == UNION {{v, upper(v), capitalize(v)} : v \in S}

Canonical(alias, v) ==
    IF lower(v) \in DOMAIN alias THEN alias[lower(v)] ELSE lower(v)

InitCompat ==
    /\ Idle
    /\ call \in [from : Spellings(SourceModes \cup DOMAIN FromAlias),
                 order : Spellings(Orders \cup DOMAIN OrderAlias),
                 format : Spellings(Formats \cup DOMAIN FormatAlias)]
    /\ ret = None

CallCompat ==
    /\ ret = None
    /\ ret' = Some(compatible_format_args(call))
    /\ UNCHANGED <<call, run_vars>>

NextCompat == CallCompat

SpecCompat == InitCompat /\ [][NextCompat]_vars

(***************************************************************************)
(* Rendering.  PrettyTable itself is a library: for the formats it renders *)
(* the model keeps the request made to it (class, method, field_names,     *)
(* fields, sortby) and the rows.  The subclasses of this program format    *)
(* the rows of _get_rows, taken here in the order they were added.         *)
(***************************************************************************)
table_class(format) ==
    CASE format = "json" -> "JsonPrettyTable"
      [] format = "json-license-finder" -> "JsonLicenseFinderTable"
      [] format = "csv" -> "CSVPrettyTable"
      [] format = "plain-vertical" -> "PlainVerticalTable"
      [] OTHER -> "PrettyTable"

\* The dict built by zip(self._field_names, row) of JsonPrettyTable.
json_format_row(field_names, row, fields) ==
    [f \in {field_names[i] : i \in 1..Len(field_names)} \cap
           {fields[i] : i \in 1..Len(fields)} |->
        row[CHOOSE i \in 1..Len(field_names) :
               /\ field_names[i] = f
               /\ \A j \in i+1..Len(field_names) : field_names[j] # f]]

jlf_key(field) ==
    CASE field = "Name" -> "name"
      [] field = "Version" -> "version"
      [] field = "License" -> "licenses"
      [] OTHER -> ""

\* The dict built by JsonLicenseFinderTable._format_row.
jlf_format_row(field_names, row) ==
    [k \in {jlf_key(field_names[i]) : i \in 1..Len(field_names)} \ {""} |->
        LET i == CHOOSE i \in 1..Len(field_names) :
                     /\ jlf_key(field_names[i]) = k
                     /\ \A j \in i+1..Len(field_names) : jlf_key(field_names[j]) # k
        IN  IF k = "licenses" THEN <<row[i]>> ELSE row[i]]

\* The values of a row as strings: only the Count column holds an integer.
row_strs(field_names, row) ==
    [i \in 1..Len(row) |->
        IF field_names[i] = "Count" THEN ToString(row[i]) ELSE row[i]]

esc_quotes_backslash(val) == replace(val, "\"", "\\\"")

esc_quotes(val) == replace(val, "\"", "\"\"")

csv_line(values) ==
    join(",", [i \in 1..Len(values) |-> "\"" \o esc_quotes(values[i]) \o "\""])

csv_get_string(field_names, rows) ==
    join("\n", <<csv_line(field_names)>>
               \o [i \in 1..Len(rows) |-> csv_line(row_strs(field_names, rows[i]))])

RECURSIVE plain_vertical_get_string(_, _)
plain_vertical_get_string(field_names, rows) ==
    IF rows = <<>> THEN ""
    ELSE LET values == row_strs(field_names, rows[1])
         IN  join("", [i \in 1..Len(values) |-> values[i] \o "\n"]) \o "\n"
             \o plain_vertical_get_string(field_names, Tail(rows))

create_output_string(a, rows) ==
    LET output_fields == get_output_fields(a)
        field_names == IF a.summary THEN SUMMARY_FIELD_NAMES ELSE output_fields
        cls == table_class(a.format)
    IN  [class |-> cls,
         method |-> IF a.format = "html" THEN "get_html_string" ELSE "get_string",
         field_names |-> field_names,
         fields |-> output_fields,
         sortby |-> get_sortby(a),
         body |-> CASE cls = "JsonPrettyTable" ->
                         [i \in 1..Len(rows) |->
                             json_format_row(field_names, rows[i], output_fields)]
                    [] cls = "JsonLicenseFinderTable" ->
                         [i \in 1..Len(rows) |-> jlf_format_row(field_names, rows[i])]
                    [] cls = "CSVPrettyTable" -> csv_get_string(field_names, rows)
                    [] cls = "PlainVerticalTable" ->
                         plain_vertical_get_string(field_names, rows)
                    [] OTHER -> rows]

ESC == "\\033"

output_colored(code, text) == ESC \o "[" \o code \o "m" \o text \o ESC \o "[0m"

create_warn_string(a) ==
    LET m1 == IF a.with_license_file /\ a.format # "json"
              THEN <<output_colored("33",
                        "Due to the length of these fields, this option is "
                        \o "best paired with --format=json.")>>
              ELSE <<>>
        m2 == IF a.summary /\ (a.with_authors \/ a.with_urls)
              THEN <<output_colored("33",
                        "When using this option, only --order=count or "
                        \o "--order=license has an effect for the --order "
                        \o "option. And using --with-authors and --with-urls "
                        \o "will be ignored.")>>
              ELSE <<>>
    IN  join("\n", m1 \o m2)

(***************************************************************************)
(* main(): parse_args, create_output_string (which drives the generator    *)
(* get_packages one distribution at a time), save_if_needs, print.         *)
(* stdout and stderr are sequences of [kind, value]: kind "text" for a     *)
(* message, "table" for the rendered output string.                        *)
(***************************************************************************)
text(v) == [kind |-> "text", value |-> v]
rendered(v) == [kind |-> "table", value |-> v]

env_vars == <<PTABLE, installed, call, ret>>

ParseArgsOk_unchecked ==
    /\ pc = "parse_args"
    /\ args' = compatible_format_args(args)
    /\ pc' = "get_packages"
    /\ UNCHANGED <<env_vars, next_pkg, table, counts, examined, resolved, yielded,
                   output_string, stdout, stderr, file, exit_code>>

ParseArgsOk ==
    /\ pc = "parse_args"
    /\ codecs_lookup(args.filter_code_page)
    /\ args' = compatible_format_args(args)
    /\ pc' = "get_packages"
    /\ UNCHANGED <<env_vars, next_pkg, table, counts, examined, resolved, yielded,
                   output_string, stdout, stderr, file, exit_code>>

ParseArgsBadCodePage ==
    /\ pc = "parse_args"
    /\ ~codecs_lookup(args.filter_code_page)
    /\ args' = compatible_format_args(args)
    /\ stdout' = Append(stdout, text(
           "error: invalid code page '" \o args.filter_code_page
           \o "' given for --filter-code-page;\n"
           \o "       check https://docs.python.org/3/library/"
           \o "codecs.html for valid code pages"))
    /\ exit_code' = Some(1)
    /\ pc' = "exit"
    /\ UNCHANGED <<env_vars, next_pkg, table, counts, examined, resolved, yielded,
                   output_string, stderr, file>>

InLoop ==
    /\ pc = "get_packages"
    /\ next_pkg <= Len(installed)

Outcome == step_outcome(installed[next_pkg], args, PTABLE)

PkgSkipped ==
    /\ InLoop
    /\ Outcome \in {"ignored", "system"}
    /\ examined' = examined \cup {next_pkg}
    /\ next_pkg' = next_pkg + 1
    /\ UNCHANGED <<env_vars, args, pc, table, counts, resolved, yielded, output_string,
                   stdout, stderr, file, exit_code>>

PkgFailOn ==
    /\ InLoop
    /\ Outcome = "fail-on"
    /\ examined' = examined \cup {next_pkg}
    /\ resolved' = resolved \cup {next_pkg}
    /\ stderr' = Append(stderr, text(fail_on_message(installed[next_pkg], args)))
    /\ exit_code' = Some(1)
    /\ pc' = "exit"
    /\ UNCHANGED <<env_vars, args, next_pkg, table, counts, yielded, output_string,
                   stdout, file>>

PkgAllowOnly ==
    /\ InLoop
    /\ Outcome = "allow-only"
    /\ examined' = examined \cup {next_pkg}
    /\ resolved' = resolved \cup {next_pkg}
    /\ stderr' = Append(stderr, text(allow_only_message(installed[next_pkg], args)))
    /\ exit_code' = Some(1)
    /\ pc' = "exit"
    /\ UNCHANGED <<env_vars, args, next_pkg, table, counts, yielded, output_string,
                   stdout, file>>

\* create_licenses_table consumes the yielded pkg_info.
PkgRow ==
    /\ InLoop
    /\ ~args.summary
    /\ Outcome = "yield"
    /\ examined' = examined \cup {next_pkg}
    /\ resolved' = resolved \cup {next_pkg}
    /\ yielded' = Append(yielded, next_pkg)
    /\ table' = Append(table, licenses_table_row(
                    get_pkg_info(installed[next_pkg], args), args,
                    get_output_fields(args)))
    /\ next_pkg' = next_pkg + 1
    /\ UNCHANGED <<env_vars, args, pc, counts, output_string, stdout, stderr,
                   file, exit_code>>

\* create_summary_table consumes the yielded pkg_info.
PkgCount ==
    /\ InLoop
    /\ args.summary
    /\ Outcome = "yield"
    /\ examined' = examined \cup {next_pkg}
    /\ resolved' = resolved \cup {next_pkg}
    /\ yielded' = Append(yielded, next_pkg)
    /\ counts' = counter_add(counts,
                    summary_key(get_pkg_info(installed[next_pkg], args), args))
    /\ next_pkg' = next_pkg + 1
    /\ UNCHANGED <<env_vars, args, pc, table, output_string, stdout, stderr,
                   file, exit_code>>

\* The generator is exhausted: the table is complete and is rendered.
CreateOutputString ==
    /\ pc = "get_packages"
    /\ next_pkg > Len(installed)
    /\ LET rows == IF args.summary THEN summary_table_rows(counts) ELSE table
       IN  /\ table' = rows
           /\ output_string' = Some(create_output_string(args, rows))
    /\ pc' = "save_if_needs"
    /\ UNCHANGED <<env_vars, args, next_pkg, counts, examined, resolved, yielded, stdout,
                   stderr, file, exit_code>>

SaveNotNeeded ==
    /\ pc = "save_if_needs"
    /\ args.output_file = None
    /\ pc' = "print"
    /\ UNCHANGED <<env_vars, args, next_pkg, table, counts, examined, resolved, yielded,
                   output_string, stdout, stderr, file, exit_code>>

SaveWritten_no_exit ==
    /\ pc = "save_if_needs"
    /\ args.output_file # None
    /\ file' = Some([complete |-> TRUE, content |-> output_string[1]])
    /\ stdout' = Append(stdout,
                        text("created path: " \o args.output_file[1] \o "\n"))
    /\ pc' = "print"
    /\ UNCHANGED <<env_vars, args, next_pkg, table, counts, examined, resolved, yielded,
                   output_string, stderr, exit_code>>

SaveWritten ==
    /\ pc = "save_if_needs"
    /\ args.output_file # None
    /\ file' = Some([complete |-> TRUE, content |-> output_string[1]])
    /\ stdout' = Append(stdout,
                        text("created path: " \o args.output_file[1] \o "\n"))
    /\ exit_code' = Some(0)
    /\ pc' = "exit"
    /\ UNCHANGED <<env_vars, args, next_pkg, table, counts, examined, resolved, yielded,
                   output_string, stderr>>

\* open() or write() raises IOError: the file is untouched, or was opened
\* (truncated) and holds only part of the string.
SaveIOError ==
    /\ pc = "save_if_needs"
    /\ args.output_file # None
    /\ file' \in {None, Some([complete |-> FALSE, content |-> output_string[1]])}
    /\ stderr' = Append(stderr, text("check path: --output-file\n"))
    /\ exit_code' = Some(1)
    /\ pc' = "exit"
    /\ UNCHANGED <<env_vars, args, next_pkg, table, counts, examined, resolved, yielded,
                   output_string, stdout>>

PrintOutput ==
    /\ pc = "print"
    /\ stdout' = Append(stdout, rendered(output_string[1]))
    /\ LET warn_string == create_warn_string(args)
       IN  stderr' = IF warn_string # ""
                     THEN Append(stderr, text(warn_string)) ELSE stderr
    /\ exit_code' = Some(0)
    /\ pc' = "exit"
    /\ UNCHANGED <<env_vars, args, next_pkg, table, counts, examined, resolved, yielded,
                   output_string, file>>

Next ==
    \/ ParseArgsOk
    \/ ParseArgsBadCodePage
    \/ PkgSkipped
    \/ PkgFailOn
    \/ PkgAllowOnly
    \/ PkgRow
    \/ PkgCount
    \/ CreateOutputString
    \/ SaveNotNeeded
    \/ SaveWritten
    \/ SaveIOError
    \/ PrintOutput

(***************************************************************************)
(* The runs of main() that are explored: the installed distributions are   *)
(* at most MaxPkgs distinct members of a set of distributions, in any      *)
(* order; the options are the defaults of create_parser except for those a *)
(* specification varies.                                                   *)
(***************************************************************************)
Dist(name, version, dir, listing, metadata, pkg_info) ==
    [project_name |-> name, version |-> version, location |-> "/site",
     dist_dir |-> dir, dist_info |-> listing,
     METADATA |-> metadata, PKG_INFO |-> pkg_info]

DistPip ==
    Dist("pip", "20.0", "pip-20.0.dist-info", <<<<"LICENSE.txt", "MIT text">>>>,
         Some(<<<<"License", "MIT">>,
                <<"Classifier", "License :: OSI Approved :: MIT License">>>>),
         None)

DistPTable ==
    Dist("PTable", "0.9", "PTable-0.9.dist-info", <<>>,
         None,
         Some(<<<<"License", "BSD">>,
                <<"Classifier", "Programming Language :: Python">>,
                <<"Classifier", "License :: OSI Approved :: BSD License">>>>))

DistAlpha ==
    Dist("Alpha-x", "1.0", "Alpha_x-1.0.dist-info",
         <<<<"COPYING", "c">>, <<"LICENCE", "say \"hi\"">>, <<"NOTICE", "n">>>>,
         Some(<<<<"Author", "Ann">>,
                <<"License", "MIT">>,
                <<"Classifier", "License :: OSI Approved">>,
                <<"Classifier", "License :: OSI Approved :: BSD License">>>>),
         Some(<<<<"License", "GPL">>>>))

DistBeta ==
    Dist("beta", "2.0", "beta-2.0.egg-info", <<<<"LICENSE", "l">>>>, None, None)

DistCapPip ==
    Dist("Pip", "0.1", "Pip-0.1.dist-info", <<>>,
         Some(<<<<"license", "MIT€">>, <<"Classifier", "License :: ">>>>),
         None)

Distributions == {DistPip, DistPTable, DistAlpha, DistBeta, DistCapPip}

InstalledLists(dists) ==
    {l \in SeqsUpTo(dists, MaxPkgs) :
        \A i, j \in 1..Len(l) : l[i] = l[j] => i = j}

Defaults ==
    [from |-> "mixed", with_system |-> FALSE, with_authors |-> FALSE,
     with_urls |-> FALSE, with_description |-> FALSE,
     with_license_file |-> FALSE, no_license_path |-> FALSE,
     with_notice_file |-> FALSE, ignore_packages |-> <<>>, order |-> "name",
     format |-> "plain", filter_strings |-> FALSE,
     filter_code_page |-> "latin1", summary |-> FALSE, output_file |-> None,
     fail_on |-> None, allow_only |-> None]

RunInit(argset, ptables, dists) ==
    /\ PTABLE \in ptables
    /\ installed \in InstalledLists(dists)
    /\ args \in argset
    /\ pc = "parse_args"
    /\ next_pkg = 1
    /\ table = <<>>
    /\ counts = <<>>
    /\ examined = {}
    /\ resolved = {}
    /\ yielded = <<>>
    /\ output_string = None
    /\ stdout = <<>>
    /\ stderr = <<>>
    /\ file = None
    /\ exit_code = None
    /\ call = <<>>
    /\ ret = None

OutputFiles == {None, Some("out.txt")}

\* The same options with a --filter-code-page that codecs does not know.
BadCodePage(argset) == {[a EXCEPT !.filter_code_page = "klingon"] : a \in argset}

\* A few runs that stop on a policy gate.
Gated(argset) ==
    {[a EXCEPT !.fail_on = Some("MIT;BSD License")] : a \in argset}
    \cup {[a EXCEPT !.allow_only = Some("MIT;UNKNOWN")] : a \in argset}

\* Runs that vary the policy gates and what they depend on.
PolicyArgs ==
    LET accepted ==
            {[Defaults EXCEPT !.from = f, !.with_system = ws, !.summary = su,
                              !.ignore_packages = ig, !.fail_on = fo,
                              !.allow_only = ao, !.output_file = of] :
                f \in SourceModes, ws \in BOOLEAN, su \in BOOLEAN,
                ig \in {<<>>, <<"ALPHA-X", "pip">>},
                fo \in {None, Some("MIT;BSD License")},
                ao \in {None, Some("MIT;UNKNOWN")},
                of \in OutputFiles}
    IN  accepted \cup BadCodePage({a \in accepted :
                        a.from = "mixed" /\ ~a.with_system /\ ~a.summary})

Init == RunInit(PolicyArgs, {TRUE}, {DistPip, DistAlpha, DistBeta, DistCapPip})

Spec == Init /\ [][Next]_vars

\* Runs that vary the record filter: the ignore list, with-system and the
\* prettytable distribution of the build.
FilterArgs ==
    LET accepted ==
            {[Defaults EXCEPT !.with_system = ws, !.summary = su,
                              !.ignore_packages = ig, !.from = f] :
                ws \in BOOLEAN, su \in BOOLEAN, f \in {"mixed", "all"},
                ig \in {<<>>, <<"ALPHA-X", "pip">>, <<"Beta", "ptable">>}}
        few == {a \in accepted : a.ignore_packages = <<>> /\ a.from = "mixed"}
    IN  accepted \cup BadCodePage(few) \cup Gated(few)
        \cup {[a EXCEPT !.output_file = Some("out.txt")] : a \in few}

InitFilter == RunInit(FilterArgs, BOOLEAN, Distributions)

SpecFilter == InitFilter /\ [][Next]_vars

\* Runs that vary what is rendered: the source mode, summary, the format and
\* the extra columns.
RenderArgs ==
    LET accepted ==
            {[Defaults EXCEPT !.from = f, !.summary = su, !.format = fmt,
                              !.with_authors = wa, !.with_license_file = wl,
                              !.with_system = ws, !.output_file = of] :
                f \in SourceModes, su \in BOOLEAN,
                fmt \in {"plain", "json", "json-license-finder", "csv",
                         "plain-vertical"},
                wa \in BOOLEAN, wl \in BOOLEAN, ws \in BOOLEAN,
                of \in OutputFiles}
        few == {a \in accepted : a.format = "json-license-finder" /\ ~a.with_authors
                                 /\ ~a.with_license_file}
    IN  accepted \cup BadCodePage(few) \cup Gated(few)

InitRender == RunInit(RenderArgs, {TRUE}, Distributions)

SpecRender == InitRender /\ [][Next]_vars

\* Runs that vary the output sink: --output-file, the code page, the
\* filtering of strings and the options that produce warnings.
SinkArgs ==
    LET accepted ==
            {[Defaults EXCEPT !.output_file = of, !.filter_code_page = cp,
                              !.filter_strings = fs, !.with_license_file = wl,
                              !.with_authors = wa, !.summary = su,
                              !.format = fmt, !.from = f] :
                of \in OutputFiles, cp \in {"latin1", "utf-8", "klingon"},
                fs \in BOOLEAN, wl \in BOOLEAN, wa \in BOOLEAN, su \in BOOLEAN,
                fmt \in {"plain", "json", "HTML"}, f \in {"mixed", "meta"}}
        few == {a \in accepted : a.format = "plain" /\ ~a.with_authors
                                 /\ ~a.with_license_file /\ ~a.summary}
    IN  accepted \cup Gated(few)

InitSink == RunInit(SinkArgs, {TRUE}, Distributions)

SpecSink == InitSink /\ [][Next]_vars

(***************************************************************************)
(* CSVPrettyTable.get_string called on its own, on tables of at most       *)
(* MaxRows rows of two values that hold quotes, commas and line breaks.    *)
(***************************************************************************)
CsvValues == {"", "a", "say \"hi\"", "b,c", "d\ne", "\",\"\n\""}

InitCsv ==
    /\ Idle
    /\ call \in [field_names : {<<"Name", "LicenseText">>},
                 rows : SeqsUpTo(CsvValues \X CsvValues, MaxRows)]
    /\ ret = None

CallCsv ==
    /\ ret = None
    /\ ret' = Some(csv_get_string(call.field_names, call.rows))
    /\ UNCHANGED <<call, run_vars>>

NextCsv == CallCsv

SpecCsv == InitCsv /\ [][NextCsv]_vars

(***************************************************************************)
(* The sort column and the field list that create_output_string hands to   *)
(* the table, computed on their own for every combination of the options   *)
(* they read.                                                              *)
(***************************************************************************)
InitSortby ==
    /\ Idle
    /\ call \in [summary : BOOLEAN, from : SourceModes, order : Orders,
                 with_authors : BOOLEAN, with_urls : BOOLEAN,
                 with_description : {FALSE}, with_license_file : BOOLEAN,
                 no_license_path : {FALSE}, with_notice_file : {FALSE}]
    /\ ret = None

CallSortby ==
    /\ ret = None
    /\ ret' = Some([output_fields |-> get_output_fields(call),
                    sortby |-> get_sortby(call)])
    /\ UNCHANGED <<call, run_vars>>

NextSortby == CallSortby

SpecSortby == InitSortby /\ [][NextSortby]_vars

(***************************************************************************)
(* select_license_by_source called on its own, on every source mode, every *)
(* classifier list of at most MaxClassifiers entries and every metadata    *)
(* license of a small vocabulary (the empty string included).              *)
(***************************************************************************)
InitSelect ==
    /\ Idle
    /\ call \in [from_source : SourceModes,
                 license_classifier : SeqsUpTo(LicenseStrings, MaxClassifiers),
                 license_meta : LicenseStrings]
    /\ ret = None

CallSelect ==
    /\ ret = None
    /\ ret' = Some(select_license_by_source(call.from_source,
                                            call.license_classifier,
                                            call.license_meta))
    /\ UNCHANGED <<call, run_vars>>

NextSelect == CallSelect

SpecSelect == InitSelect /\ [][NextSelect]_vars

\* C1 (as amended): in classifier mode, and in mixed mode with a non-empty
\* classifier list, select_license_by_source returns the classifier list
\* joined by ", ", or "UNKNOWN" when that joined string is empty (the list is
\* empty or holds a single empty string); in every other case (meta, mixed
\* with an empty list, all) it returns the metadata license unchanged.
C1_SelectByJoinedString ==
    ret # None =>
        LET joined == join(", ", call.license_classifier)
            shown == IF joined = "" THEN "UNKNOWN" ELSE joined
        IN  /\ call.from_source = "classifier" => ret[1] = shown
            /\ (call.from_source = "mixed" /\ call.license_classifier # <<>>)
                   => ret[1] = shown
            /\ (call.from_source = "mixed" /\ call.license_classifier = <<>>)
                   => ret[1] = call.license_meta
            /\ call.from_source \in {"meta", "all"}
                   => ret[1] = call.license_meta

\* C1 as stated: "UNKNOWN" is returned only when the classifier list is empty.
C1_SelectAsStated ==
    ret # None =>
        LET joined == join(", ", call.license_classifier)
            shown == IF call.license_classifier = <<>> THEN "UNKNOWN" ELSE joined
        IN  /\ call.from_source = "classifier" => ret[1] = shown
            /\ (call.from_source = "mixed" /\ call.license_classifier # <<>>)
                   => ret[1] = shown
            /\ (call.from_source = "mixed" /\ call.license_classifier = <<>>)
                   => ret[1] = call.license_meta
            /\ call.from_source \in {"meta", "all"}
                   => ret[1] = call.license_meta

C1_Witness ==
    /\ call.from_source = "mixed"
    /\ call.license_classifier = <<"MIT", "BSD">>
    /\ call.license_meta = LICENSE_UNKNOWN
    /\ ret = Some("MIT, BSD")

NoRepeat(list) ==
    \A i, j \in 1..Len(list) : list[i] = list[j] => i = j

Opt(flag, field) == IF flag THEN <<field>> ELSE <<>>

\* C5: get_output_fields returns a list without repeated fields that is
\* [Count, License] under summary, and otherwise [Name, Version], then
\* License-Metadata and License-Classifier under source mode all and License
\* otherwise, then Author, URL, Description for each flag set, then, only with
\* with-license-file, LicenseFile (unless no-license-path) and LicenseText
\* and, only if with-notice-file is also set, NoticeText and NoticeFile
\* (unless no-license-path).
C5_OutputFields ==
    ret # None =>
        /\ NoRepeat(ret[1])
        /\ call.summary => ret[1] = <<"Count", "License">>
        /\ ~call.summary =>
             ret[1] = <<"Name", "Version">>
                  \o (IF call.from = "all"
                      THEN <<"License-Metadata", "License-Classifier">>
                      ELSE <<"License">>)
                  \o Opt(call.with_authors, "Author")
                  \o Opt(call.with_urls, "URL")
                  \o Opt(call.with_description, "Description")
                  \o (IF call.with_license_file
                      THEN Opt(~call.no_license_path, "LicenseFile")
                           \o <<"LicenseText">>
                           \o (IF call.with_notice_file
                               THEN <<"NoticeText">>
                                    \o Opt(~call.no_license_path, "NoticeFile")
                               ELSE <<>>)
                      ELSE <<>>)

C5_Witness ==
    /\ ~call.summary /\ call.from = "all" /\ call.with_urls
    /\ call.with_license_file /\ call.with_notice_file
    /\ ~call.no_license_path /\ ~call.with_authors /\ ~call.with_description
    /\ ret = Some(<<"Name", "Version", "License-Metadata", "License-Classifier",
                    "URL", "LicenseFile", "LicenseText", "NoticeText",
                    "NoticeFile">>)

\* C9: for every canonical value or alias of --from, --order and --format, in
\* any letter case, the stored value is the canonical lower-case value.
C9_CanonicalStored ==
    ret # None =>
        /\ ret[1].from = Canonical(FromAlias, call.from)
        /\ ret[1].order = Canonical(OrderAlias, call.order)
        /\ ret[1].format = Canonical(FormatAlias, call.format)
        /\ ret[1].from \in SourceModes
        /\ ret[1].order \in Orders
        /\ ret[1].format \in Formats

(***************************************************************************)
(* The record filter and the policy gates, as the claims state them.       *)
(***************************************************************************)
SystemNames ==
    {"pip-licenses", "pip", "setuptools", "wheel",
     IF PTABLE THEN "PTable" ELSE "prettytable"}

IgnoreListed(i) ==
    \E j \in 1..Len(args.ignore_packages) :
        lower(args.ignore_packages[j]) = lower(installed[i].project_name)

Kept(i) ==
    /\ ~IgnoreListed(i)
    /\ args.with_system \/ installed[i].project_name \notin SystemNames

ResolvedLicense(i) == license_name_of(installed[i], args)

Configured(option) == option # None /\ option[1] # ""

Names(option) ==
    LET l == split(option[1], ";") IN {l[j] : j \in 1..Len(l)}

InFailOn(i) ==
    Configured(args.fail_on) /\ ResolvedLicense(i) \in Names(args.fail_on)

NotAllowed(i) ==
    Configured(args.allow_only) /\ ResolvedLicense(i) \notin Names(args.allow_only)

Violators == {i \in 1..Len(installed) : Kept(i) /\ (InFailOn(i) \/ NotAllowed(i))}

FirstViolator == CHOOSE i \in Violators : \A j \in Violators : i <= j

Diagnostic(i) ==
    IF InFailOn(i)
    THEN "fail-on license " \o ResolvedLicense(i) \o " was found for package "
         \o installed[i].project_name \o ":" \o installed[i].version
    ELSE "license " \o ResolvedLicense(i)
         \o " not in allow-only licenses was found for package "
         \o installed[i].project_name \o ":" \o installed[i].version

TablePrinted == \E i \in 1..Len(stdout) : stdout[i].kind = "table"

\* C2: in a run where a package that survives the ignore-list and the
\* system-package filter has a resolved license in the fail-on list, or not
\* in the allow-only list, nothing is ever written to the --output-file, the
\* table is never rendered or printed, the exit code is 1 and, the options
\* having been accepted, a policy diagnostic is on the error stream.
C2_ViolationStopsRun ==
    Violators # {} =>
        /\ file = None
        /\ ~TablePrinted
        /\ output_string = None
        /\ pc \in {"parse_args", "get_packages", "exit"}
        /\ pc = "exit" => exit_code = Some(1)
        /\ (pc = "exit" /\ codecs_lookup(args.filter_code_page)) =>
               /\ Len(stderr) = 1
               /\ \E i \in Violators : stderr[1] = text(Diagnostic(i))

C2_Witness ==
    /\ pc = "exit"
    /\ exit_code = Some(1)
    /\ args.output_file = Some("out.txt")
    /\ args.fail_on = Some("MIT;BSD License")
    /\ args.from = "mixed"
    /\ installed = <<DistBeta, DistAlpha>>
    /\ yielded = <<1>>
    /\ stderr = <<text("fail-on license BSD License was found for package Alpha-x:1.0")>>
    /\ file = None

\* C3: packages are examined in enumeration order; the license of a package
\* skipped by the ignore-list or the system-package filter is never resolved;
\* the only policy diagnostic ever written names the first package, in
\* enumeration order, that survives the filters and violates a policy, as a
\* fail-on diagnostic if its license is in the fail-on list (also when it is
\* not in the allow-only list either); no package after it is examined.
C3_FirstViolatorReported ==
    /\ \E k \in 0..Len(installed) : examined = 1..k
    /\ \A i \in resolved : Kept(i)
    /\ Violators # {} => \A i \in examined : i <= FirstViolator
    /\ \A m \in 1..Len(stderr) :
          (\/ startswith(stderr[m].value, "fail-on license ")
           \/ startswith(stderr[m].value, "license ")) =>
              /\ Violators # {}
              /\ stderr[m] = text(Diagnostic(FirstViolator))
    /\ (Violators # {} /\ pc = "exit" /\ codecs_lookup(args.filter_code_page)) =>
          /\ stderr = <<text(Diagnostic(FirstViolator))>>
          /\ examined = 1..FirstViolator

C3_Witness ==
    /\ pc = "exit"
    /\ args.fail_on = Some("MIT;BSD License")
    /\ args.allow_only = Some("MIT;UNKNOWN")
    /\ args.from = "mixed"
    /\ ~args.with_system
    /\ installed = <<DistPip, DistAlpha>>
    /\ examined = {1, 2}
    /\ resolved = {2}
    /\ stderr = <<text("fail-on license BSD License was found for package Alpha-x:1.0")>>

\* C4: when get_packages runs to its end, it has yielded exactly the
\* installed packages, in enumeration order, whose name matches no
\* ignore-list entry case-insensitively and, unless with-system is set, is
\* not exactly a member of the system-package set.
KeptPositions == SelectSeq([i \in 1..Len(installed) |-> i], Kept)

C4_YieldsKeptPackages ==
    output_string # None =>
        /\ yielded = KeptPositions
        /\ ~args.summary =>
              /\ Len(table) = Len(yielded)
              /\ \A r \in 1..Len(table) :
                    table[r][1] = installed[yielded[r]].project_name

C4_Witness ==
    /\ output_string # None
    /\ args.with_system
    /\ ~args.summary
    /\ PTABLE
    /\ args.ignore_packages = <<"ALPHA-X", "pip">>
    /\ installed = <<DistCapPip, DistPTable>>
    /\ yielded = <<2>>

\* C6: with format json-license-finder every record of the output has exactly
\* the keys name, version and licenses, licenses being a one-element list, for
\* every combination of the other options.
C6_LicenseFinderKeys ==
    (output_string # None /\ args.format = "json-license-finder") =>
        \A r \in 1..Len(output_string[1].body) :
            LET record == output_string[1].body[r]
            IN  /\ DOMAIN record = {"name", "version", "licenses"}
                /\ Len(record["licenses"]) = 1

\* C7: in summary mode the table has one row per distinct resolved license
\* of the packages that passed the filters, its Count being the number of
\* those packages with that resolved license; the Counts add up to the
\* number of those packages.
RECURSIVE SumCounts(_)
SumCounts(rows) ==
    IF rows = <<>> THEN 0 ELSE rows[1][1] + SumCounts(Tail(rows))

C7_SummaryCountsResolved ==
    (output_string # None /\ args.summary) =>
        LET licenses == {ResolvedLicense(yielded[k]) : k \in 1..Len(yielded)}
        IN  /\ {table[r][2] : r \in 1..Len(table)} = licenses
            /\ Len(table) = Cardinality(licenses)
            /\ \A r \in 1..Len(table) :
                  table[r][1] = Cardinality({k \in 1..Len(yielded) :
                                    ResolvedLicense(yielded[k]) = table[r][2]})
            /\ SumCounts(table) = Len(yielded)

\* C8: once rendering has completed with --output-file set, the run ends
\* either with the complete rendered string in the file, only the
\* confirmation line on standard output, nothing on the error stream and
\* exit code 0, or with only the write-failure message on the error stream,
\* nothing on standard output and exit code 1; the rendered string is
\* printed (and a warning written) only when --output-file is not set.
C8_SaveOrPrint ==
    /\ TablePrinted => args.output_file = None
    /\ (file # None) => args.output_file # None
    /\ (pc = "exit" /\ output_string # None /\ args.output_file # None) =>
          \/ /\ file = Some([complete |-> TRUE, content |-> output_string[1]])
             /\ stdout = <<text("created path: out.txt\n")>>
             /\ stderr = <<>>
             /\ exit_code = Some(0)
          \/ /\ file = None \/ ~file[1].complete
             /\ stdout = <<>>
             /\ stderr = <<text("check path: --output-file\n")>>
             /\ exit_code = Some(1)
    /\ (pc = "exit" /\ output_string # None /\ args.output_file = None) =>
          /\ stdout = <<rendered(output_string[1])>>
          /\ exit_code = Some(0)

C8_Witness ==
    /\ pc = "exit"
    /\ args.output_file = Some("out.txt")
    /\ args.with_license_file
    /\ args.format = "plain"
    /\ installed = <<DistAlpha>>
    /\ file # None /\ file[1].complete
    /\ file[1].content.body = <<<<"Alpha-x", "1.0", "BSD License",
                                  "/site/Alpha_x-1.0.dist-info/LICENCE",
                                  "say \"hi\"">>>>
    /\ stderr = <<>>
    /\ exit_code = Some(0)

\* C10: with a --filter-code-page that is not recognised, the run reports
\* the error and exits with code 1, and no package is ever examined, no
\* license resolved, nothing rendered, printed or written to the output
\* file, with and without --filter-strings.
C10_BadCodePageStopsFirst ==
    ~codecs_lookup(args.filter_code_page) =>
        /\ pc \in {"parse_args", "exit"}
        /\ examined = {} /\ resolved = {} /\ yielded = <<>>
        /\ table = <<>> /\ counts = <<>>
        /\ output_string = None
        /\ file = None
        /\ stderr = <<>>
        /\ ~TablePrinted
        /\ pc = "exit" =>
              /\ exit_code = Some(1)
              /\ Len(stdout) = 1
              /\ startswith(stdout[1].value, "error: invalid code page 'klingon'")

C10_Witness ==
    /\ pc = "exit"
    /\ args.filter_code_page = "klingon"
    /\ args.filter_strings
    /\ args.output_file = Some("out.txt")
    /\ installed = <<DistCapPip, DistAlpha>>
    /\ exit_code = Some(1)
    /\ examined = {}

(***************************************************************************)
(* A reader of the csv quoting convention: inside quotes a doubled quote   *)
(* is one quote and every other character, commas and line breaks          *)
(* included, belongs to the value; outside quotes a comma ends the value   *)
(* and a line break ends the record.                                       *)
(***************************************************************************)
Ch(s, i) == SubSeq(s, i, i)

\* The place of the separator that ends the value read from place j on
\* (one past the end when there is none).
RECURSIVE csv_value_end(_, _, _)
csv_value_end(s, j, quoted) ==
    IF j > Len(s) THEN j
    ELSE IF Ch(s, j) = "\"" THEN csv_value_end(s, j + 1, ~quoted)
    ELSE IF ~quoted /\ Ch(s, j) \in {",", "\n"} THEN j
    ELSE csv_value_end(s, j + 1, quoted)

\* The value written as raw.
RECURSIVE csv_value(_, _)
csv_value(raw, quoted) ==
    IF raw = "" THEN ""
    ELSE IF quoted /\ startswith(raw, "\"\"")
    THEN "\"" \o csv_value(Tail(Tail(raw)), TRUE)
    ELSE IF Ch(raw, 1) = "\"" THEN csv_value(Tail(raw), ~quoted)
    ELSE Ch(raw, 1) \o csv_value(Tail(raw), quoted)

RECURSIVE csv_read(_, _, _, _)
csv_read(s, i, record, records) ==
    LET j == csv_value_end(s, i, FALSE)
        value == csv_value(SubSeq(s, i, j - 1), FALSE)
    IN  IF j > Len(s) THEN Append(records, Append(record, value))
        ELSE IF Ch(s, j) = ","
        THEN csv_read(s, j + 1, Append(record, value), records)
        ELSE csv_read(s, j + 1, <<>>, Append(records, Append(record, value)))

CsvRecords(s) == csv_read(s, 1, <<>>, <<>>)

\* Each line of the output, cut at every line break, read on its own.
LineBreaks(s) == {k \in 1..Len(s) : Ch(s, k) = "\n"}

LineBreak(s, n) ==
    IF n = 0 THEN 0
    ELSE IF n > Cardinality(LineBreaks(s)) THEN Len(s) + 1
    ELSE CHOOSE k \in LineBreaks(s) :
             Cardinality({q \in LineBreaks(s) : q < k}) = n - 1

CsvLines(s) ==
    [i \in 1..(Cardinality(LineBreaks(s)) + 1) |->
        CsvRecords(SubSeq(s, LineBreak(s, i - 1) + 1, LineBreak(s, i) - 1))[1]]

Quoted(v) == "\"" \o v \o "\""

HasLineBreak(rows) ==
    \E r \in 1..Len(rows) : \E k \in 1..Len(rows[r]) :
        \E i \in 1..Len(rows[r][k]) : SubSeq(rows[r][k], i, i) = "\n"

\* C11 (as amended): every header and value is written between double
\* quotes with each double quote of the value doubled and nothing else
\* changed, values joined by commas and records by line breaks; reading the
\* output by the quoting convention (a line break inside quotes belongs to
\* the value) gives back the header and every row, also for values with
\* commas, quotes or line breaks; reading each line of the output on its own
\* gives them back when no value holds a line break.
C11_CsvRoundTrip ==
    ret # None =>
        /\ CsvRecords(ret[1]) = <<call.field_names>> \o call.rows
        /\ ~HasLineBreak(call.rows) =>
               CsvLines(ret[1]) = <<call.field_names>> \o call.rows
        /\ call.rows = <<<<"say \"hi\"", "b,c">>>> =>
               ret[1] = "\"Name\",\"LicenseText\"\n\"say \"\"hi\"\"\",\"b,c\""

\* C11 as stated: each line of the output, re-split by the quoting
\* convention, gives back the values of one row, line breaks included.
C11_CsvLineRoundTrip ==
    ret # None => CsvLines(ret[1]) = <<call.field_names>> \o call.rows

C11_Witness ==
    /\ call.rows = <<<<"d\ne", "b,c">>, <<"\",\"\n\"", "say \"hi\"">>>>
    /\ ret # None
    /\ CsvRecords(ret[1]) = <<<<"Name", "LicenseText">>, <<"d\ne", "b,c">>,
                              <<"\",\"\n\"", "say \"hi\"">>>>

\* C12: for every combination of summary, source mode, order, with-authors
\* and with-urls, the sort column chosen by get_sortby is one of the fields
\* returned by get_output_fields for the same options.
C12_SortbyInFields ==
    ret # None => In(ret[1].sortby, ret[1].output_fields)

\* C13: for a yielded package that has neither a METADATA nor a PKG-INFO
\* block, the License column is exactly "UNKNOWN" under the source modes
\* meta, classifier and mixed, and under mode all the License-Metadata and
\* License-Classifier columns are exactly "UNKNOWN".
NoMetadata(pkg) == pkg.METADATA = None /\ pkg.PKG_INFO = None

C13_NoMetadataIsUnknown ==
    (output_string # None /\ ~args.summary) =>
        \A r \in 1..Len(table) :
            NoMetadata(installed[yielded[r]]) =>
                /\ ResolvedLicense(yielded[r]) = "UNKNOWN"
                /\ table[r][3] = "UNKNOWN"
                /\ args.from = "all" => table[r][4] = "UNKNOWN"

====
